---- MODULE Spec2Model ----
(***************************************************************************)
(* The in-memory job queue and credit ledger of createImageRouter          *)
(* (src/backend/routers/image.ts): one router instance, its closure state, *)
(* its request handlers and the completion timers armed by setTimeout.     *)
(* Handlers run to completion on the single event loop, so every handler   *)
(* and every timer callback is one atomic action.                          *)
(***************************************************************************)
EXTENDS Integers, Sequences, FiniteSets, TLC

VARIABLES
    credits,        \* let credits
    jobQueue,       \* const jobQueue: {jobId, prompt, timeoutId}[]
    completedJobs,  \* const completedJobs: Record<string, ImageResponse[]>
    cancelledJobs,  \* const cancelledJobs: {jobId}[]
    timers,         \* armed setTimeout callbacks, oldest first: {timeoutId, jobId, prompt}
    nextTimeoutId,  \* identity of the next Timeout object setTimeout returns
    purchases,      \* number of purchase requests served
    req,            \* the request (or timer expiry) handled last
    res,            \* the response sent last
    generateCalls   \* POST /generate requests: position, outbound calls, responses

vars == <<credits, jobQueue, completedJobs, cancelledJobs, timers,
          nextTimeoutId, purchases, req, res, generateCalls>>

registry == <<credits, jobQueue, completedJobs, cancelledJobs, timers>>

----------------------------------------------------------------------------
(* Bounds of the model *)

MaxJobs == 3            \* timers ever armed under Spec
MaxLedgerJobs == 11     \* timers ever armed under SpecLedger
MaxPurchases == 1       \* purchase requests served
MaxGenerateRequests == 2    \* POST /generate requests received

(* Program constants *)

InitialCredits == 10
CREDITS_IN_BUNDLE == 10

(* Inputs *)

NoParam == ""                       \* an absent query parameter (falsy)
Prompts == {"sunset", "dawn"}
JobIds == {"j1", "j2"}              \* strings Math.random().toString(36) may yield
ObjectPrototypeKeys == {"constructor"}  \* members every {} inherits
RequestedIds == JobIds \cup ObjectPrototypeKeys \cup {"zz", NoParam}

LedgerPrompts == {"sunset"}
LedgerJobIds == {"j1"}
LedgerRequestedIds == {"j1", "zz"}

----------------------------------------------------------------------------
(* Helpers *)

\* Array.prototype.findIndex on job.jobId === jobId; 0 stands for -1
findIndex(queue, jobId) ==
    IF \E i \in 1..Len(queue) : queue[i].jobId = jobId
    THEN CHOOSE i \in 1..Len(queue) :
            /\ queue[i].jobId = jobId
            /\ \A k \in 1..(i - 1) : queue[k].jobId # jobId
    ELSE 0

\* splice(index) without the delete count: everything from index on is removed
spliceToEnd(queue, index) == SubSeq(queue, 1, index - 1)

\* Array.prototype.splice(index, 1)
splice(queue, index) ==
    [i \in 1..(Len(queue) - 1) |-> IF i < index THEN queue[i] ELSE queue[i + 1]]

\* Array.prototype.some on job.jobId === jobId
some(list, jobId) == \E i \in 1..Len(list) : list[i].jobId = jobId

\* clearTimeout left out: the callback stays armed
clearTimeoutForgotten(armed, timeoutId) == armed

\* clearTimeout: the callback of that Timeout object is disarmed
clearTimeout(armed, timeoutId) ==
    SelectSeq(armed, LAMBDA t : t.timeoutId # timeoutId)

\* placeholderImages.map((img) => ({...img, label: prompt}))
placeholderImages == <<"pexels-photo-1145720", "pexels-photo-4010108">>

labelledImages(prompt) ==
    [i \in 1..Len(placeholderImages) |->
        [url |-> placeholderImages[i], label |-> prompt]]

\* truthiness of obj[key] for a plain object: own entries are arrays (truthy),
\* and keys of Object.prototype resolve to inherited members (truthy)
truthyProperty(obj, key) ==
    key \in DOMAIN obj \/ key \in ObjectPrototypeKeys

\* completedJobs[jobId] = images
assign(obj, key, value) ==
    [k \in DOMAIN obj \cup {key} |-> IF k = key THEN value ELSE obj[k]]

\* the pre-check of the balance at enqueue time
insufficientCreditsBelowZero == credits < 0

\* a pre-check that counts the pending jobs against the balance
insufficientCreditsCountingPending == credits - Len(jobQueue) <= 0

insufficientCredits == credits <= 0

Request(route, prompt, jobId) ==
    [route |-> route, prompt |-> prompt, jobId |-> jobId]

Response(status, body) == [status |-> status, body |-> body]

NoResponse == Response(0, [none |-> TRUE])

----------------------------------------------------------------------------
(* POST /generate: the four versions of the handler in the repository *)

Variants == {"image.ts", "part_000", "part_001", "part_002"}

BACKEND_URL == "http://127.0.0.1:4000"

Slots == 1..MaxGenerateRequests

\* req.body; 0 and "" stand for an absent (falsy) field
GenerateBody(prompt, width, height, width_in, height_in) ==
    [prompt |-> prompt, width |-> width, height |-> height,
     width_in |-> width_in, height_in |-> height_in,
     job_type |-> NoParam, style_prompt |-> NoParam]

GenerateBodies ==
    { GenerateBody("Flyer", 800, 600, 0, 0),
      GenerateBody(NoParam, 800, 600, 0, 0),
      GenerateBody(NoParam, 0, 0, 8, 10) }

\* what the MCP service does with the call: answers 2xx with a JSON object or
\* with JSON null, answers non-2xx with an error payload, the connection
\* fails, or it never answers
Fates == {"ok", "okNull", "httpError", "networkError", "silent"}

IdleCall ==
    [pc |-> "idle", variant |-> "none", body |-> GenerateBody(NoParam, 0, 0, 0, 0),
     fate |-> "none", posts |-> << >>, responses |-> << >>]

\* the field-presence check of each version
rejects(variant, body) ==
    CASE variant \in {"image.ts", "part_000"} ->
            body.prompt = NoParam \/ body.width = 0 \/ body.height = 0
      [] variant = "part_001" -> FALSE
      [] variant = "part_002" -> body.width_in = 0 \/ body.height_in = 0

\* a || b for strings
orElse(a, b) == IF a # NoParam THEN a ELSE b

\* the body forwarded to the MCP service
forwardBody(variant, body) ==
    IF variant = "part_002"
    THEN [action |-> "generate_template",
          payload |-> [name |-> orElse(body.job_type, "Custom Design"),
                       width |-> body.width_in * 300,
                       height |-> body.height_in * 300,
                       prompt |-> orElse(body.style_prompt,
                                    "Modern and clean professional artwork")]]
    ELSE [action |-> "generate_template",
          payload |-> [name |-> body.prompt, width |-> body.width,
                       height |-> body.height]]

\* the axios.post call of each version
axiosPost(variant, body) ==
    [url |-> IF variant \in {"image.ts", "part_000"}
             THEN BACKEND_URL \o "/agent/command"
             ELSE "http://127.0.0.1:4000/agent/command",
     data |-> forwardBody(variant, body),
     timeout |-> CASE variant = "image.ts" -> 5000
                   [] variant \in {"part_000", "part_001"} -> 15000
                   [] variant = "part_002" -> 20000]

\* an axios call made without a timeout option: a silent service is waited
\* for indefinitely
axiosOutcomeNoTimeout(fate) == fate

\* how the awaited axios promise settles: with the timeout option a call the
\* service never answers is rejected when the timeout expires
axiosOutcome(fate) == IF fate = "silent" THEN "timeout" ELSE fate

\* err.response?.data || err.message
errorEcho(outcome) ==
    CASE outcome = "httpError" -> "upstream error payload"
      [] outcome = "networkError" -> "Network Error"
      [] outcome = "timeout" -> "timeout exceeded"
      [] outcome = "typeError" -> "Cannot read properties of null"

GenerateResponse(status, success, echo) ==
    [status |-> status, success |-> success, echo |-> echo]

\* the response of each version once the call has settled; reading a property
\* of a null response body throws inside the try block of part_001 and part_002
respond(variant, outcome) ==
    CASE variant = "image.ts" ->
            IF outcome \in {"ok", "okNull"}
            THEN GenerateResponse(200, "true", outcome)
            ELSE GenerateResponse(502, "absent", errorEcho(outcome))
      [] variant = "part_000" ->
            IF outcome \in {"ok", "okNull"}
            THEN GenerateResponse(200, "true", outcome)
            ELSE GenerateResponse(502, "false", errorEcho(outcome))
      [] variant \in {"part_001", "part_002"} ->
            IF outcome = "ok"
            THEN GenerateResponse(200, "true", outcome)
            ELSE IF outcome = "okNull"
            THEN GenerateResponse(500, "false", errorEcho("typeError"))
            ELSE GenerateResponse(500, "false", errorEcho(outcome))

----------------------------------------------------------------------------
Init ==
    /\ credits = InitialCredits
    /\ jobQueue = << >>
    /\ completedJobs = << >>
    /\ cancelledJobs = << >>
    /\ timers = << >>
    /\ nextTimeoutId = 1
    /\ purchases = 0
    /\ req = Request("NONE", NoParam, NoParam)
    /\ res = NoResponse
    /\ generateCalls = [s \in Slots |-> IdleCall]

\* GET /api/credits
Credits ==
    /\ UNCHANGED generateCalls
    /\ req' = Request("CREDITS", NoParam, NoParam)
    /\ res' = Response(200, [credits |-> credits])
    /\ UNCHANGED <<credits, jobQueue, completedJobs, cancelledJobs, timers,
                   nextTimeoutId, purchases>>

\* the purchase handler topping an overdrawn balance up to one bundle
PurchaseCreditsResetsDebt ==
    /\ credits' = IF credits < 0 THEN CREDITS_IN_BUNDLE
                  ELSE credits + CREDITS_IN_BUNDLE
    /\ purchases' = purchases + 1
    /\ UNCHANGED generateCalls
    /\ req' = Request("PURCHASE_CREDITS", NoParam, NoParam)
    /\ res' = Response(200, [credits |-> credits'])
    /\ UNCHANGED <<jobQueue, completedJobs, cancelledJobs, timers, nextTimeoutId>>

\* POST /api/purchase-credits
PurchaseCredits ==
    /\ credits' = credits + CREDITS_IN_BUNDLE
    /\ purchases' = purchases + 1
    /\ UNCHANGED generateCalls
    /\ req' = Request("PURCHASE_CREDITS", NoParam, NoParam)
    /\ res' = Response(200, [credits |-> credits'])
    /\ UNCHANGED <<jobQueue, completedJobs, cancelledJobs, timers, nextTimeoutId>>

\* the enqueue handler charging the credit up front, the callback charging again
QueueImageGenerationDebits(prompt, jobId) ==
    /\ UNCHANGED generateCalls
    /\ req' = Request("QUEUE_IMAGE_GENERATION", prompt, NoParam)
    /\ IF prompt = NoParam
       THEN /\ res' = Response(400, [error |-> "Missing prompt parameter"])
            /\ UNCHANGED <<registry, nextTimeoutId, purchases>>
       ELSE IF insufficientCredits
       THEN /\ res' = Response(403, [error |-> "Not enough credits"])
            /\ UNCHANGED <<registry, nextTimeoutId, purchases>>
       ELSE /\ timers' = Append(timers, [timeoutId |-> nextTimeoutId,
                                         jobId |-> jobId, prompt |-> prompt])
            /\ nextTimeoutId' = nextTimeoutId + 1
            /\ jobQueue' = Append(jobQueue, [jobId |-> jobId, prompt |-> prompt,
                                             timeoutId |-> nextTimeoutId])
            /\ credits' = credits - 1
            /\ res' = Response(200, [jobId |-> jobId])
            /\ UNCHANGED <<completedJobs, cancelledJobs, purchases>>

\* GET /api/queue-image-generation?prompt=...; jobId is what generateJobId()
\* returns on this call
QueueImageGeneration(prompt, jobId) ==
    /\ UNCHANGED generateCalls
    /\ req' = Request("QUEUE_IMAGE_GENERATION", prompt, NoParam)
    /\ IF prompt = NoParam
       THEN /\ res' = Response(400, [error |-> "Missing prompt parameter"])
            /\ UNCHANGED <<registry, nextTimeoutId, purchases>>
       ELSE IF insufficientCredits
       THEN /\ res' = Response(403, [error |-> "Not enough credits"])
            /\ UNCHANGED <<registry, nextTimeoutId, purchases>>
       ELSE /\ timers' = Append(timers, [timeoutId |-> nextTimeoutId,
                                         jobId |-> jobId, prompt |-> prompt])
            /\ nextTimeoutId' = nextTimeoutId + 1
            /\ jobQueue' = Append(jobQueue, [jobId |-> jobId, prompt |-> prompt,
                                             timeoutId |-> nextTimeoutId])
            /\ res' = Response(200, [jobId |-> jobId])
            /\ UNCHANGED <<credits, completedJobs, cancelledJobs, purchases>>

\* the setTimeout callback of the oldest armed timer runs (all timers have the
\* same 5000 ms delay, so they expire in the order they were armed)
TimeoutFires ==
    /\ timers # << >>
    /\ UNCHANGED generateCalls
    /\ LET t == Head(timers)
           index == findIndex(jobQueue, t.jobId)
       IN  /\ timers' = Tail(timers)
           /\ req' = Request("TIMEOUT", t.prompt, t.jobId)
           /\ res' = NoResponse
           /\ IF index # 0
              THEN /\ jobQueue' = splice(jobQueue, index)
                   /\ completedJobs' =
                        assign(completedJobs, t.jobId, labelledImages(t.prompt))
                   /\ credits' = credits - 1
              ELSE UNCHANGED <<jobQueue, completedJobs, credits>>
    /\ UNCHANGED <<cancelledJobs, nextTimeoutId, purchases>>

\* a status handler that forgets a cancelled job once it has reported it
JobStatusConsumes(jobId) ==
    /\ UNCHANGED generateCalls
    /\ req' = Request("JOB_STATUS", NoParam, jobId)
    /\ res' =
        IF jobId = NoParam
        THEN Response(400, [error |-> "Missing jobId parameter"])
        ELSE IF truthyProperty(completedJobs, jobId)
        THEN IF jobId \in DOMAIN completedJobs
             THEN Response(200, [status |-> "completed",
                                 images |-> completedJobs[jobId],
                                 credits |-> credits])
             ELSE Response(200, [status |-> "completed", credits |-> credits])
        ELSE IF some(jobQueue, jobId)
        THEN Response(200, [status |-> "processing"])
        ELSE IF some(cancelledJobs, jobId)
        THEN Response(200, [status |-> "cancelled"])
        ELSE Response(404, [error |-> "Job not found"])
    /\ cancelledJobs' =
        IF jobId # NoParam /\ ~truthyProperty(completedJobs, jobId)
           /\ ~some(jobQueue, jobId)
        THEN SelectSeq(cancelledJobs, LAMBDA c : c.jobId # jobId)
        ELSE cancelledJobs
    /\ UNCHANGED <<credits, jobQueue, completedJobs, timers, nextTimeoutId, purchases>>

\* GET /api/job-status?jobId=...
JobStatus(jobId) ==
    /\ UNCHANGED generateCalls
    /\ req' = Request("JOB_STATUS", NoParam, jobId)
    /\ res' =
        IF jobId = NoParam
        THEN Response(400, [error |-> "Missing jobId parameter"])
        ELSE IF truthyProperty(completedJobs, jobId)
        THEN IF jobId \in DOMAIN completedJobs
             THEN Response(200, [status |-> "completed",
                                 images |-> completedJobs[jobId],
                                 credits |-> credits])
             ELSE Response(200, [status |-> "completed", credits |-> credits])
        ELSE IF some(jobQueue, jobId)
        THEN Response(200, [status |-> "processing"])
        ELSE IF some(cancelledJobs, jobId)
        THEN Response(200, [status |-> "cancelled"])
        ELSE Response(404, [error |-> "Job not found"])
    /\ UNCHANGED <<registry, nextTimeoutId, purchases>>

\* the cancel handler recording the id before looking the job up
CancelJobRecordsFirst(jobId) ==
    /\ UNCHANGED generateCalls
    /\ req' = Request("CANCEL_JOB", NoParam, jobId)
    /\ LET index == findIndex(jobQueue, jobId)
       IN  IF jobId = NoParam
           THEN /\ res' = Response(400, [error |-> "Missing jobId parameter"])
                /\ UNCHANGED registry
           ELSE IF index = 0
           THEN /\ res' = Response(404, [error |-> "Job not found"])
                /\ cancelledJobs' = Append(cancelledJobs, [jobId |-> jobId])
                /\ UNCHANGED <<credits, jobQueue, completedJobs, timers>>
           ELSE /\ jobQueue' = splice(jobQueue, index)
                /\ timers' = clearTimeout(timers, jobQueue[index].timeoutId)
                /\ cancelledJobs' = Append(cancelledJobs, [jobId |-> jobId])
                /\ res' = Response(200, [message |-> "Job successfully cancelled"])
                /\ UNCHANGED <<credits, completedJobs>>
    /\ UNCHANGED <<nextTimeoutId, purchases>>

\* POST /api/job-status/cancel?jobId=...
CancelJob(jobId) ==
    /\ UNCHANGED generateCalls
    /\ req' = Request("CANCEL_JOB", NoParam, jobId)
    /\ LET index == findIndex(jobQueue, jobId)
       IN  IF jobId = NoParam
           THEN /\ res' = Response(400, [error |-> "Missing jobId parameter"])
                /\ UNCHANGED registry
           ELSE IF index = 0
           THEN /\ res' = Response(404, [error |-> "Job not found"])
                /\ UNCHANGED registry
           ELSE /\ jobQueue' = splice(jobQueue, index)
                /\ timers' = clearTimeout(timers, jobQueue[index].timeoutId)
                /\ cancelledJobs' = Append(cancelledJobs, [jobId |-> jobId])
                /\ res' = Response(200, [message |-> "Job successfully cancelled"])
                /\ UNCHANGED <<credits, completedJobs>>
    /\ UNCHANGED <<nextTimeoutId, purchases>>

----------------------------------------------------------------------------
(* The router under requests drawn from small input sets *)

Next ==
    \/ Credits
    \/ PurchaseCredits /\ purchases' <= MaxPurchases
    \/ \E p \in Prompts \cup {NoParam}, j \in JobIds :
          QueueImageGeneration(p, j) /\ nextTimeoutId' <= MaxJobs + 1
    \/ TimeoutFires
    \/ \E j \in RequestedIds : JobStatus(j)
    \/ \E j \in RequestedIds : CancelJob(j)

Spec == Init /\ [][Next]_vars

(* The same router with one prompt and one id, and enough jobs to spend the *)
(* initial balance                                                         *)

NextLedger ==
    \/ Credits
    \/ PurchaseCredits /\ purchases' <= MaxPurchases
    \/ \E p \in LedgerPrompts \cup {NoParam}, j \in LedgerJobIds :
          QueueImageGeneration(p, j) /\ nextTimeoutId' <= MaxLedgerJobs + 1
    \/ TimeoutFires
    \/ \E j \in LedgerRequestedIds : JobStatus(j)
    \/ \E j \in LedgerRequestedIds : CancelJob(j)

SpecLedger == Init /\ [][NextLedger]_vars

\* POST /generate arrives: the handler validates the body and, if it passes,
\* issues the outbound call and suspends on it
GenerateRequest(s, variant, body, fate) ==
    /\ generateCalls[s].pc = "idle"
    /\ \A k \in 1..(s - 1) : generateCalls[k].pc # "idle"
    /\ generateCalls' = [generateCalls EXCEPT ![s] =
         IF rejects(variant, body)
         THEN [pc |-> "done", variant |-> variant, body |-> body,
               fate |-> "none", posts |-> << >>,
               responses |-> <<GenerateResponse(400, "absent",
                                                 "Missing required fields")>>]
         ELSE [pc |-> "awaiting", variant |-> variant, body |-> body,
               fate |-> fate, posts |-> <<axiosPost(variant, body)>>,
               responses |-> << >>]]
    /\ UNCHANGED <<registry, nextTimeoutId, purchases, req, res>>

\* the awaited call settles and the handler answers
GenerateSettles(s) ==
    /\ generateCalls[s].pc = "awaiting"
    /\ axiosOutcome(generateCalls[s].fate) # "silent"
    /\ generateCalls' = [generateCalls EXCEPT ![s] =
         [@ EXCEPT !.pc = "done",
                   !.responses = Append(@, respond(generateCalls[s].variant,
                                          axiosOutcome(generateCalls[s].fate)))]]
    /\ UNCHANGED <<registry, nextTimeoutId, purchases, req, res>>

NextGenerate ==
    \/ \E s \in Slots, v \in Variants, b \in GenerateBodies, f \in Fates :
          GenerateRequest(s, v, b, f)
    \/ \E s \in Slots : GenerateSettles(s)

\* every outbound call settles: the service answers, the connection fails, or
\* the timeout of the call expires
SpecGenerate ==
    Init /\ [][NextGenerate]_vars /\ \A s \in Slots : WF_vars(GenerateSettles(s))

----------------------------------------------------------------------------
(* Properties *)

pendingIds == {jobQueue[i].jobId : i \in 1..Len(jobQueue)}
completedIds == DOMAIN completedJobs
cancelledIds == {cancelledJobs[i].jobId : i \in 1..Len(cancelledJobs)}
armedIds == {timers[i].jobId : i \in 1..Len(timers)}

Enqueued == req.route = "QUEUE_IMAGE_GENERATION" /\ res.status = 200
StatusAsked == req.route = "JOB_STATUS" /\ req.jobId # NoParam
StatusAnswer == IF res.status = 200 THEN res.body.status ELSE "error"

\* C1: every job id is in at most one of the pending queue, the completed map
\* and the cancelled list.
C1_AtMostOneCollection ==
    /\ pendingIds \cap completedIds = {}
    /\ pendingIds \cap cancelledIds = {}
    /\ completedIds \cap cancelledIds = {}

\* C2: the id a successful enqueue returns was in none of pending, completed
\* or cancelled at the moment of the enqueue.
C2_FreshJobId ==
    [][(req'.route = "QUEUE_IMAGE_GENERATION" /\ res'.status = 200)
         => res'.body.jobId \notin (pendingIds \cup completedIds \cup cancelledIds)]_vars

\* C3: cancellation and completion never both take effect for one id: a cancelled
\* id is never stored as completed, a status request for a cancelled id answers
\* "cancelled", and a cancel for a completed id is rejected.
C3_CancelExcludesCompletion ==
    /\ cancelledIds \cap completedIds = {}
    /\ (StatusAsked /\ req.jobId \in cancelledIds) => StatusAnswer = "cancelled"
    /\ (req.route = "CANCEL_JOB" /\ req.jobId \in completedIds) => res.status = 404

\* C4: the credit balance is never negative.
C4_CreditsNonNegative == credits >= 0

\* C5: completed and cancelled are terminal: a completed id stays completed with
\* the same images, a cancelled id stays cancelled, and neither becomes pending
\* again or enters the other terminal collection.
C5_TerminalStates ==
    [][/\ \A j \in completedIds :
             /\ j \in DOMAIN completedJobs'
             /\ completedJobs'[j] = completedJobs[j]
             /\ ~some(cancelledJobs', j)
             /\ (~some(jobQueue, j) => ~some(jobQueue', j))
       /\ \A j \in cancelledIds :
             /\ some(cancelledJobs', j)
             /\ j \notin DOMAIN completedJobs'
             /\ (~some(jobQueue, j) => ~some(jobQueue', j))]_vars

\* C6: a status request for an enqueued job whose timer has not fired answers
\* "processing"; a completion stores exactly two images labelled with the job's
\* prompt and lowers the balance by one.
C6_ProcessingThenCompleted ==
    /\ (StatusAsked /\ req.jobId \in armedIds) => StatusAnswer = "processing"
    /\ (req.route = "TIMEOUT" /\ req.jobId \in completedIds) =>
          /\ Len(completedJobs[req.jobId]) = 2
          /\ \A i \in 1..2 : completedJobs[req.jobId][i].label = req.prompt

\* C7: status answers "completed" iff the id is in completedJobs, "processing"
\* iff it is pending, "cancelled" iff it is in cancelledJobs, and 404 iff it is
\* in none of the three.
C7_StatusReportsCollection ==
    StatusAsked =>
        /\ (StatusAnswer = "completed") <=> (req.jobId \in completedIds)
        /\ (StatusAnswer = "processing") <=> (req.jobId \in pendingIds)
        /\ (StatusAnswer = "cancelled") <=> (req.jobId \in cancelledIds)
        /\ (res.status = 404) <=>
              (req.jobId \notin (completedIds \cup pendingIds \cup cancelledIds))

\* C8 as stated: every enqueue at a balance <= 0 is rejected with 403, every
\* enqueue without a prompt with 400, and both change nothing.
C8_RejectedEnqueueAsStated ==
    [][req'.route = "QUEUE_IMAGE_GENERATION" =>
         /\ (credits <= 0 =>
               res'.status = 403 /\ UNCHANGED <<registry, nextTimeoutId>>)
         /\ (req'.prompt = NoParam =>
               res'.status = 400 /\ UNCHANGED <<registry, nextTimeoutId>>)]_vars

\* C8 as amended: an enqueue that carries a prompt at a balance <= 0 is rejected
\* with 403, an enqueue without a prompt is rejected with 400 whatever the
\* balance, and both leave the queue, the timers, the balance and the completed
\* and cancelled jobs unchanged.
C8_RejectedEnqueue ==
    [][req'.route = "QUEUE_IMAGE_GENERATION" =>
         /\ ((credits <= 0 /\ req'.prompt # NoParam) =>
               res'.status = 403 /\ UNCHANGED <<registry, nextTimeoutId>>)
         /\ (req'.prompt = NoParam =>
               res'.status = 400 /\ UNCHANGED <<registry, nextTimeoutId>>)]_vars

C8_Witness ==
    /\ req.route = "QUEUE_IMAGE_GENERATION"
    /\ req.prompt # NoParam
    /\ res.status = 403
    /\ credits = 0

\* C9: a cancel request for an id that is not pending answers 404 and leaves the
\* queue, the completed and cancelled jobs, the timers and the balance unchanged.
C9_CancelNotPending ==
    [][(req'.route = "CANCEL_JOB" /\ req'.jobId # NoParam
          /\ ~some(jobQueue, req'.jobId))
         => res'.status = 404 /\ UNCHANGED registry]_vars

C9_Witness ==
    /\ req.route = "CANCEL_JOB"
    /\ res.status = 404
    /\ req.jobId \in cancelledIds
    /\ Len(cancelledJobs) = 1

\* C10: the armed timers are exactly the timers of the pending jobs, each armed
\* for the id of its job, so no timer is armed for a job that left the queue and
\* the timer that fires next finds its job pending.
C10_NoDanglingTimers ==
    /\ {<<timers[i].timeoutId, timers[i].jobId>> : i \in 1..Len(timers)}
         = {<<jobQueue[i].timeoutId, jobQueue[i].jobId>> : i \in 1..Len(jobQueue)}
    /\ Len(timers) = Len(jobQueue)
    /\ timers # << >> => findIndex(jobQueue, Head(timers).jobId) # 0

C10_Witness ==
    /\ req.route = "CANCEL_JOB"
    /\ res.status = 200
    /\ Len(jobQueue) = 1
    /\ req.jobId \notin armedIds

\* C11: a status request for an id that was never issued (it is in none of the
\* three collections, which never drop an id) answers 404.
C11_UnknownIdNotFound ==
    (StatusAsked /\ req.jobId \notin JobIds) => res.status = 404

\* C12: a purchase answers 200 with the new balance, which is the balance before
\* plus 10 whatever that balance was, and leaves the queue, the timers and the
\* completed and cancelled jobs unchanged.
C12_PurchaseAddsBundle ==
    [][req'.route = "PURCHASE_CREDITS" =>
         /\ credits' = credits + 10
         /\ res'.status = 200
         /\ res'.body.credits = credits'
         /\ UNCHANGED <<jobQueue, timers, completedJobs, cancelledJobs>>]_vars

C12_Witness ==
    /\ req.route = "PURCHASE_CREDITS"
    /\ res.status = 200
    /\ credits = 9

\* C16: the balance is 10 plus 10 per purchase minus 1 per completed job (every
\* timer ever armed belongs to a job that is pending, was cancelled or has
\* completed), and the balance changes only by a completion, which takes 1, or
\* by a purchase: never by an enqueue, a cancel or a status request.
completions == (nextTimeoutId - 1) - Len(jobQueue) - Len(cancelledJobs)

C16_CreditConservation ==
    /\ [](credits = 10 + 10 * purchases - completions)
    /\ [][credits' # credits =>
            \/ req'.route = "TIMEOUT" /\ credits' = credits - 1
                 /\ Len(jobQueue') = Len(jobQueue) - 1
            \/ req'.route = "PURCHASE_CREDITS"]_vars

C16_Witness ==
    /\ purchases = 1
    /\ completions = 2
    /\ Len(cancelledJobs) = 1
    /\ credits = 18

\* C17: an enqueue with a prompt at a positive balance succeeds however many
\* jobs are pending; it appends one entry to the queue and arms one timer for
\* it, and leaves the balance, the completed and cancelled jobs, the entries
\* already pending and the timers already armed unchanged.
C17_EnqueueFrame ==
    [][(req'.route = "QUEUE_IMAGE_GENERATION" /\ req'.prompt # NoParam
          /\ credits > 0) =>
         /\ res'.status = 200
         /\ Len(jobQueue') = Len(jobQueue) + 1
         /\ SubSeq(jobQueue', 1, Len(jobQueue)) = jobQueue
         /\ jobQueue'[Len(jobQueue')].jobId = res'.body.jobId
         /\ jobQueue'[Len(jobQueue')].prompt = req'.prompt
         /\ Len(timers') = Len(timers) + 1
         /\ SubSeq(timers', 1, Len(timers)) = timers
         /\ timers'[Len(timers')].timeoutId = jobQueue'[Len(jobQueue')].timeoutId
         /\ UNCHANGED <<credits, completedJobs, cancelledJobs>>]_vars

C17_Witness ==
    /\ Enqueued
    /\ Len(jobQueue) > credits
    /\ Len(timers) = Len(jobQueue)

\* C18: a credits request and a status request, for any id, leave the balance,
\* the queue, the timers and the completed and cancelled jobs unchanged.
C18_ReadOnly ==
    [][req'.route \in {"CREDITS", "JOB_STATUS"} => UNCHANGED registry]_vars

C18_Witness ==
    /\ StatusAsked
    /\ StatusAnswer = "cancelled"
    /\ jobQueue # << >>
    /\ completedIds # {}

\* C19: a successful cancel removes one pending entry, the first with the
\* requested id, and disarms the timer of that entry only; every other entry
\* stays pending in its place with its timer armed, and the balance and the
\* completed jobs are unchanged.
C19_CancelRemovesOnlyTarget ==
    [][(req'.route = "CANCEL_JOB" /\ res'.status = 200) =>
         \E i \in 1..Len(jobQueue) :
            /\ jobQueue[i].jobId = req'.jobId
            /\ jobQueue' = [k \in 1..(Len(jobQueue) - 1) |->
                              IF k < i THEN jobQueue[k] ELSE jobQueue[k + 1]]
            /\ timers' = SelectSeq(timers,
                            LAMBDA t : t.timeoutId # jobQueue[i].timeoutId)
            /\ Len(timers') = Len(timers) - 1
            /\ cancelledJobs' = Append(cancelledJobs, [jobId |-> req'.jobId])
            /\ UNCHANGED <<credits, completedJobs>>]_vars

C19_Witness ==
    /\ req.route = "CANCEL_JOB"
    /\ res.status = 200
    /\ Len(jobQueue) = 2
    /\ jobQueue[1].timeoutId = 1
    /\ jobQueue[2].timeoutId = 3
    /\ Len(timers) = 2

callFailed(s) ==
    /\ generateCalls[s].pc = "done"
    /\ generateCalls[s].posts # << >>
    /\ generateCalls[s].fate \in {"httpError", "networkError", "silent"}

\* C13: when the outbound call of a valid generate request fails, exactly one
\* call was made and the answer has status 502 or 500, carries success:false
\* and echoes the upstream payload or the error message.
C13_UpstreamFailure ==
    \A s \in Slots : callFailed(s) =>
        /\ Len(generateCalls[s].posts) = 1
        /\ Len(generateCalls[s].responses) = 1
        /\ generateCalls[s].responses[1].status \in {500, 502}
        /\ generateCalls[s].responses[1].success = "false"
        /\ generateCalls[s].responses[1].echo \in
              {"upstream error payload", "Network Error", "timeout exceeded"}

\* the fields a generate request must carry: prompt, width and height, or
\* width_in and height_in for the version that takes physical dimensions
lacksRequiredField(variant, body) ==
    IF variant = "part_002"
    THEN body.width_in = 0 \/ body.height_in = 0
    ELSE body.prompt = NoParam \/ body.width = 0 \/ body.height = 0

\* C14: a generate request that lacks a required field is answered 400 without
\* an outbound call; one with all required fields issues exactly one POST to
\* {base}/agent/command with action generate_template.
C14_ValidationBeforeCall ==
    \A s \in Slots : generateCalls[s].pc # "idle" =>
        IF lacksRequiredField(generateCalls[s].variant, generateCalls[s].body)
        THEN /\ generateCalls[s].posts = << >>
             /\ generateCalls[s].pc = "done"
             /\ generateCalls[s].responses[1].status = 400
        ELSE /\ Len(generateCalls[s].posts) = 1
             /\ generateCalls[s].posts[1].url = "http://127.0.0.1:4000/agent/command"
             /\ generateCalls[s].posts[1].data.action = "generate_template"

\* C15: a generate request never gets more than one response, it has its one
\* response exactly when its handler has finished, and every request received
\* is eventually finished.
C15_ExactlyOneResponse ==
    /\ [](\A s \in Slots :
            /\ Len(generateCalls[s].responses) <= 1
            /\ (generateCalls[s].pc = "done") <=> (Len(generateCalls[s].responses) = 1))
    /\ \A s \in Slots :
          (generateCalls[s].pc # "idle") ~>
             (generateCalls[s].pc = "done" /\ Len(generateCalls[s].responses) = 1)

C15_Witness ==
    \E s \in Slots :
        /\ generateCalls[s].pc = "done"
        /\ generateCalls[s].fate = "silent"
        /\ Len(generateCalls[s].responses) = 1
        /\ generateCalls[s].responses[1].echo = "timeout exceeded"

====
